---- MODULE Spec2Model ----
(***************************************************************************)
(* Model of src/src/lib/stitcher.ts: stitchVideo (the sampling loop, the   *)
(* compositing onto the master canvas, the footer step, progress           *)
(* reporting), findOffset (the sparse, distance-penalised template         *)
(* search) and detectStaticRegions (the row statistic and the two band     *)
(* scans); and of the App component that calls them.  Frames and canvases  *)
(* carry real pixel values; the loop clock is an IEEE-754 double, as in    *)
(* the source.                                                             *)
(***************************************************************************)
EXTENDS Integers, Sequences, FiniteSets, TLC

VARIABLES
    pc,             \* where the async function stitchVideo is suspended
    video,          \* the input video: texture, duration, how it scrolls
    cropTop,        \* options.cropMask.top
    cropBottom,     \* options.cropMask.bottom
    videoPos,       \* scroll position of the frame the video element shows
    videoScene,     \* TRUE when the shown frame is a scene change (all white)
    videoError,     \* the media element has fired "error"
    duration,       \* video.duration as read at line 27 (a double)
    time,           \* the loop variable of line 76 (a double)
    masterCanvas,   \* [width, height, rows]: the growing output bitmap
    lastFrameData,  \* the retained previous frame (ImageData)
    currentY,       \* line 41
    faults,         \* how many context requests the platform has refused
    progressLog,    \* history: the values passed to onProgress, in order
    offsets,        \* history: the value findOffset returned, per iteration
    moves,          \* history: the true scroll of each sampled frame
    footerWrites,   \* history: how many times the footer band was drawn
    growFailed,     \* history: a grow step went on without a context
    probe,          \* the frame pair handed to findOffset on its own
    detect,         \* a call of detectStaticRegions: position, frames, result
    app             \* the state of the App component and its calls in flight

vars == <<pc, video, cropTop, cropBottom, videoPos, videoScene, videoError,
          duration, time, masterCanvas, lastFrameData, currentY, faults,
          progressLog, offsets, moves, footerWrites, growFailed, probe,
          detect, app>>

(***************************************************************************)
(* Bounds of the model.                                                    *)
(***************************************************************************)
H == 100            \* video.videoHeight of the modelled videos
W == 4              \* video.videoWidth of the modelled videos
MaxFree == 2        \* freely scrolling videos last at most MaxFree + 1 steps
MaxUniform == 9     \* uniformly scrolling videos last at most MaxUniform steps
MaxFaults == 1      \* refused context requests per run

\* The crop masks <<top, bottom>> of the modelled runs.
CropMasks == {<<0, 0>>, <<10, 10>>}
UniformMasks == {<<0, 0>>, <<10, 0>>}
\* What a video may do between two samples: scroll by d, or cut to white.
FreeMoves ==
    {[d |-> 0, scene |-> FALSE], [d |-> 4, scene |-> FALSE],
     [d |-> 7, scene |-> FALSE], [d |-> 0, scene |-> TRUE]}
UniformMoves == {[d |-> 4, scene |-> FALSE]}
Textures == {"rich", "faint"}

(***************************************************************************)
(* Program constants.                                                      *)
(***************************************************************************)
Infinity == 1000000000
ScanStride == 2
SampleStride == 5
PenaltyPerCc == 5
RejectAbove == 8000
MinSearchHeight == 10

(***************************************************************************)
(* Pixels, bitmaps and the input video.                                    *)
(***************************************************************************)
Grey(v) == <<v, v, v, 255>>
Transparent == <<0, 0, 0, 0>>
White == Grey(255)
HeaderPixel == Grey(90)
FooterPixel == Grey(60)

\* The scrolled document: the pixel of document row r at column x.
\*   rich:  two grey levels in an irregular pattern;
\*   faint: a slow red sawtooth in one column, black elsewhere;
\*   ramp:  a red ramp of 5 levels per 4 rows in one column, black elsewhere;
\*   band:  one grey band of 16 rows on black.
Doc(tex, r, x) ==
    IF tex = "rich"
    THEN Grey(32 * (((r * r + 5 * r * (x + 1)) % 251) % 2))
    ELSE IF tex = "band"
    THEN IF r >= 80 /\ r < 96 THEN Grey(35) ELSE Grey(0)
    ELSE IF x # W \div 4 THEN <<0, 0, 0, 255>>
    ELSE IF tex = "ramp" THEN <<((5 * r) \div 4) % 256, 0, 0, 255>>
    ELSE <<r % 64, 0, 0, 255>>

\* The decoded frame of a video scrolled to pos: a fixed header band of top
\* rows, a fixed footer band of bottom rows, the document in between.
VideoFrame(tex, pos, scene, top, bottom) ==
    [y \in 0 .. H - 1 |->
        [x \in 0 .. W - 1 |->
            IF scene THEN White
            ELSE IF y < top THEN HeaderPixel
            ELSE IF y >= H - bottom THEN FooterPixel
            ELSE Doc(tex, pos + y, x)]]

\* ctx.drawImage(video, 0, 0); ctx.getImageData(0, 0, w, h): the flat RGBA
\* array of the frame.
getFrameData(frame, w, h) ==
    [width |-> w, height |-> h,
     data |-> [i \in 0 .. w * h * 4 - 1 |->
                  frame[(i \div 4) \div w][(i \div 4) % w][(i % 4) + 1]]]

Abs(n) == IF n < 0 THEN -n ELSE n

(***************************************************************************)
(* findOffset.                                                             *)
(***************************************************************************)
SearchHeight(h, top, bottom) == ((h - top - bottom) * 2) \div 10

SignatureY(h, top, bottom) == h - bottom - SearchHeight(h, top, bottom)

MaxScroll(h) == h \div 2

\* MinScanY without the clamp at cropTop.
MinScanYUnclamped(h, top, bottom) ==
    SignatureY(h, top, bottom) - MaxScroll(h)

MinScanY(h, top, bottom) ==
    LET s == SignatureY(h, top, bottom) - MaxScroll(h)
    IN IF top > s THEN top ELSE s

ColsToScan(w) == <<(w * 2) \div 4, w \div 4, (w * 3) \div 4>>

\* One sample of the inner loop: |dR| + |dG| + |dB| at column x, row k.
SampleDiff(prev, curr, w, x, signatureY, scanY, k) ==
    LET prevIdx == ((signatureY + k) * w + x) * 4
        currIdx == ((scanY + k) * w + x) * 4
    IN Abs(prev.data[prevIdx] - curr.data[currIdx])
       + Abs(prev.data[prevIdx + 1] - curr.data[currIdx + 1])
       + Abs(prev.data[prevIdx + 2] - curr.data[currIdx + 2])

RECURSIVE ColumnDiff(_, _, _, _, _, _, _, _)
ColumnDiff(prev, curr, w, x, signatureY, scanY, searchHeight, k) ==
    IF k >= searchHeight THEN 0
    ELSE SampleDiff(prev, curr, w, x, signatureY, scanY, k)
         + ColumnDiff(prev, curr, w, x, signatureY, scanY, searchHeight,
                      k + SampleStride)

\* diff of one candidate scanY: the three columns, every fifth row.
Dissimilarity(prev, curr, w, signatureY, scanY, searchHeight) ==
    LET cols == ColsToScan(w)
    IN ColumnDiff(prev, curr, w, cols[1], signatureY, scanY, searchHeight, 0)
       + ColumnDiff(prev, curr, w, cols[2], signatureY, scanY, searchHeight, 0)
       + ColumnDiff(prev, curr, w, cols[3], signatureY, scanY, searchHeight, 0)

\* Score with the sign of the penalty reversed.
ScoreFavourFar(diff, currentOffset) == diff - currentOffset * PenaltyPerCc

Score(diff, currentOffset) == diff + currentOffset * PenaltyPerCc

\* Better that also takes a candidate scoring the same.
BetterOrEqual(score, minDiff) == score <= minDiff

Better(score, minDiff) == score < minDiff

\* NextScanY on a grid twice as coarse.
NextScanYCoarse(scanY) == scanY - 2 * ScanStride

NextScanY(scanY) == scanY - ScanStride

\* The scan loop of lines 263-290, from scanY down to minScanY; best is the
\* pair [minDiff, bestOffset] carried by the loop.
\* Lines 286-289: keep the candidate when its score is the new minimum.
Track(best, score, currentOffset) ==
    IF Better(score, best.minDiff)
    THEN [minDiff |-> score, bestOffset |-> currentOffset]
    ELSE best

RECURSIVE ScanLoop(_, _, _, _, _, _, _, _)
ScanLoop(prev, curr, w, signatureY, searchHeight, minScanY, scanY, best) ==
    IF scanY < minScanY THEN best
    ELSE ScanLoop(prev, curr, w, signatureY, searchHeight, minScanY,
                  NextScanY(scanY),
                  Track(best,
                        Score(Dissimilarity(prev, curr, w, signatureY, scanY,
                                            searchHeight), signatureY - scanY),
                        signatureY - scanY))

\* Rejected with the threshold itself rejected too.
RejectedOrEqual(minDiff) == minDiff >= RejectAbove

Rejected(minDiff) == minDiff > RejectAbove

\* Lines 237 and 292-295: the early return and the final threshold.
Decide(searchHeight, best) ==
    IF searchHeight < MinSearchHeight THEN 0
    ELSE IF Rejected(best.minDiff) THEN 0
    ELSE best.bestOffset

findOffset(prev, curr, w, h, top, bottom) ==
    Decide(SearchHeight(h, top, bottom),
           ScanLoop(prev, curr, w, SignatureY(h, top, bottom),
                    SearchHeight(h, top, bottom), MinScanY(h, top, bottom),
                    SignatureY(h, top, bottom),
                    [minDiff |-> Infinity, bestOffset |-> 0]))

(***************************************************************************)
(* IEEE-754 doubles in [0, 8), held exactly as <<hi, lo>> = hi * 2^28 + lo *)
(* units of 2^-56: the loop clock of line 76 accumulates 0.1 in binary     *)
(* floating point.                                                         *)
(***************************************************************************)
Limb == 2 ^ 28

\* 0.1, the double 0x3FB999999999999A.
Step == <<26843545, 161061274>>

\* The double nearest to n / 10, n = 0 .. 14: the durations of the videos.
DoubleOfTenths(n) ==
    <<  <<0, 0>>, <<26843545, 161061274>>, <<53687091, 53687092>>,
        <<80530636, 214748364>>, <<107374182, 107374184>>, <<134217728, 0>>,
        <<161061273, 161061272>>, <<187904819, 53687088>>,
        <<214748364, 214748368>>, <<241591910, 107374184>>,
        <<268435456, 0>>, <<295279001, 161061280>>,
        <<322122547, 53687088>>, <<348966092, 214748368>>,
        <<375809638, 107374176>>  >>[n + 1]

\* The spacing of doubles around a value whose high limb is hi.
Ulp(hi) ==
    IF hi < 2 ^ 25 THEN 1
    ELSE IF hi < 2 ^ 26 THEN 2
    ELSE IF hi < 2 ^ 27 THEN 4
    ELSE IF hi < 2 ^ 28 THEN 8
    ELSE IF hi < 2 ^ 29 THEN 16
    ELSE 32

\* a + b in double arithmetic: the exact sum, rounded to nearest, ties to even.
DoubleAdd(a, b) ==
    LET lo0 == a[2] + b[2]
        hi0 == a[1] + b[1] + lo0 \div Limb
        lo1 == lo0 % Limb
        ulp == Ulp(hi0)
        q == lo1 \div ulp
        r == lo1 % ulp
        up == 2 * r > ulp \/ (2 * r = ulp /\ q % 2 = 1)
        lo2 == (IF up THEN q + 1 ELSE q) * ulp
    IN IF lo2 = Limb THEN <<hi0 + 1, 0>> ELSE <<hi0, lo2>>

DoubleLess(a, b) == a[1] < b[1] \/ (a[1] = b[1] /\ a[2] < b[2])

\* Percent with the quotient upside down.
PercentInverted(t, d) == ((d[1] \div 1024) * 100) \div (t[1] \div 1024)

\* (time / duration) * 100 as a whole percent, computed on the high limbs
\* of the two doubles (a resolution of 2^-18 s).
Percent(t, d) == ((t[1] \div 1024) * 100) \div (d[1] \div 1024)

(***************************************************************************)
(* Canvases.                                                               *)
(***************************************************************************)
BlankRow(w) == [x \in 0 .. w - 1 |-> Transparent]

\* A canvas element of the given size: setting width or height resets the
\* bitmap to transparent black.
NewCanvas(w, h) ==
    [width |-> w, height |-> h, rows |-> [y \in 0 .. h - 1 |-> BlankRow(w)]]

NoCanvas == NewCanvas(0, 0)

\* source-over compositing of one pixel (alpha is 0 or 255 here).
Over(src, dst) == IF src[4] = 0 THEN dst ELSE src

\* drawImage(source, 0, sy, width, sh, 0, dy, width, sh): source rows
\* [sy, sy + sh) composited onto rows [dy, dy + sh) of the canvas.
DrawImage(canvas, srcRows, srcHeight, sy, sh, dy) ==
    [canvas EXCEPT !.rows =
        [y \in 0 .. canvas.height - 1 |->
            IF y >= dy /\ y < dy + sh /\ sy + (y - dy) >= 0
               /\ sy + (y - dy) < srcHeight
            THEN [x \in 0 .. canvas.width - 1 |->
                     Over(srcRows[sy + (y - dy)][x], canvas.rows[y][x])]
            ELSE canvas.rows[y]]]

\* Lines 107-110 and 180-183: the temporary canvas holding a copy of the
\* master canvas; tempOk: whether getContext("2d") returned its context.
TempCopy(canvas, tempOk) ==
    IF tempOk
    THEN DrawImage(NewCanvas(canvas.width, canvas.height), canvas.rows,
                   canvas.height, 0, canvas.height, 0)
    ELSE NewCanvas(canvas.width, canvas.height)

\* Regrown with the new height one row short.
RegrownShort(canvas, extra, temp) ==
    DrawImage(NewCanvas(canvas.width, canvas.height + extra - 1), temp.rows,
              temp.height, 0, temp.height, 0)

\* Lines 112, 115 and 185, 188: the resized (hence cleared) master canvas
\* with the temporary copy drawn back at the origin.
Regrown(canvas, extra, temp) ==
    DrawImage(NewCanvas(canvas.width, canvas.height + extra), temp.rows,
              temp.height, 0, temp.height, 0)

\* The strip appended for a scroll of scrollAmount: lines 155-165.
StripSourceY(h, scrollAmount, bottom) == h - scrollAmount - bottom

DrawStrip(resized, frame, h, scrollAmount, bottom) ==
    DrawImage(resized, frame, h, StripSourceY(h, scrollAmount, bottom),
              scrollAmount, resized.height - scrollAmount)

\* Lines 105-166; ctxOk: whether the resized master canvas gave a context.
AppendStrip(canvas, frame, h, scrollAmount, bottom, tempOk, ctxOk) ==
    IF ~ctxOk THEN NewCanvas(canvas.width, canvas.height + scrollAmount)
    ELSE DrawStrip(Regrown(canvas, scrollAmount, TempCopy(canvas, tempOk)),
                   frame, h, scrollAmount, bottom)

\* FooterSourceY one row too high.
FooterSourceYHigh(h, bottom) == h - bottom - 1

\* The footer step: lines 176-203.
FooterSourceY(h, bottom) == h - bottom

DrawFooter(resized, frame, h, bottom) ==
    DrawImage(resized, frame, h, FooterSourceY(h, bottom), bottom,
              resized.height - bottom)

AppendFooter(canvas, frame, h, bottom, tempOk, ctxOk) ==
    IF bottom > 0
    THEN IF ~ctxOk THEN NewCanvas(canvas.width, canvas.height + bottom)
         ELSE DrawFooter(Regrown(canvas, bottom, TempCopy(canvas, tempOk)),
                         frame, h, bottom)
    ELSE canvas

\* Line 60-71: the first frame, without its footer rows.
DrawFirstFrame(canvas, frame, h, bottom) ==
    DrawImage(NewCanvas(canvas.width, h - bottom), frame, h, 0, h - bottom, 0)

(***************************************************************************)
(* The inputs: the video and the crop mask.                                *)
(***************************************************************************)
\* A free video makes any of FreeMoves between two samples; a uniform video scrolls by the same amount every time.
FreeVideos ==
    [tex : Textures, tenths : 1 .. MaxFree + 1, kind : {"free"}]

UniformVideos ==
    [tex : {"rich"}, tenths : {MaxUniform - 1, MaxUniform}, kind : {"uniform"}]

Moves(v) == IF v.kind = "free" THEN FreeMoves ELSE UniformMoves

\* The frame the video element shows.
ShownFrame(v, pos, scene, top, bottom) ==
    VideoFrame(v.tex, pos, scene, top, bottom)

NoFrameData == [width |-> 0, height |-> 0, data |-> <<>>]

NoProbe ==
    [tex |-> "rich", d |-> 0, top |-> 0, bottom |-> 0, cut |-> FALSE,
     result |-> 0]

\* The frame pairs given to findOffset on its own, under the mask
\* <<top, bottom>>: the current frame is the previous one with its content
\* moved up by d, or (cut) the previous frame is all white and the current
\* frame shows the content scrolled to d.
ProbeTops == {0, 10, 40, 80}
ProbeBottoms == {0, 10, 20}
ShiftTextures == Textures \cup {"ramp"}
CutTextures == {"rich", "band"}
CutMasks == {<<0, 0>>, <<0, 10>>, <<40, 10>>}
Probes ==
    [tex : ShiftTextures, d : 0 .. MaxScroll(H), top : ProbeTops,
     bottom : ProbeBottoms, cut : {FALSE}, result : {-1}]
    \cup {[tex |-> t, d |-> d, top |-> m[1], bottom |-> m[2], cut |-> TRUE,
           result |-> -1] :
             t \in CutTextures, d \in 0 .. MaxScroll(H), m \in CutMasks}

Awaiting == {"awaitMetadata", "awaitSeek0", "awaitSeek"}

\* The state before stitchVideo is called on the video v with the crop mask
\* {top, bottom}.
Quiet(v, top, bottom) ==
    /\ pc = "idle"
    /\ video = v
    /\ cropTop = top
    /\ cropBottom = bottom
    /\ videoPos = 0
    /\ videoScene = FALSE
    /\ videoError = FALSE
    /\ duration = <<0, 0>>
    /\ time = <<0, 0>>
    /\ masterCanvas = NoCanvas
    /\ lastFrameData = NoFrameData
    /\ currentY = 0
    /\ faults = 0
    /\ progressLog = <<>>
    /\ offsets = <<>>
    /\ moves = <<>>
    /\ footerWrites = 0
    /\ growFailed = FALSE

\* The videos given to detectStaticRegions: h rows, a band of top rows and a
\* band of bottom rows that flicker by noise grey levels from one sampled
\* frame to the next, and content in between that changes once, between the
\* samples changeAt - 1 and changeAt (never when changeAt = 0).
DetectH == 6
DetectHeights == {DetectH, DetectH + 1}
DetectNoises == {0, 5, 6}
DetectVideos ==
    {v \in [h : DetectHeights, top : 0 .. DetectH + 1,
            bottom : 0 .. DetectH + 1, noise : DetectNoises,
            changeAt : 0 .. 4] : v.top + v.bottom <= v.h}

NoRegions == [top |-> -1, bottom |-> -1]

\* A call of detectStaticRegions on the video v, not yet made.
DetectCall(v, at) ==
    [pc |-> at, video |-> v, frames |-> <<>>, ctxOk |-> TRUE,
     result |-> NoRegions]

NoDetect ==
    DetectCall([h |-> 0, top |-> 0, bottom |-> 0, noise |-> 0,
                changeAt |-> 0], "none")

\* The App component: its useState cells (videoFile and videoUrl are set and
\* cleared together) and the promises of its two calls still pending.
AppState(mounted) ==
    [mounted |-> mounted, videoFile |-> FALSE, isProcessing |-> FALSE,
     resultImage |-> FALSE, cropTop |-> 0, cropBottom |-> 0,
     detecting |-> 0, stitching |-> 0]

NoApp == AppState(FALSE)

\* No call of detectStaticRegions is modelled, no App component is mounted.
Apart == detect = NoDetect /\ app = NoApp

Idle(v, top, bottom) == Quiet(v, top, bottom) /\ probe = NoProbe /\ Apart

Init ==
    \E v \in FreeVideos, mask \in CropMasks : Idle(v, mask[1], mask[2])

\* Longer videos that scroll by the same amount at every step, no footer:
\* the frame shown at the k-th clock value of the loop is scrolled by k times
\* that amount.
InitUniform ==
    \E v \in UniformVideos, mask \in UniformMasks :
        Idle(v, mask[1], mask[2])

(***************************************************************************)
(* stitchVideo, one action per stretch of code between two awaits.         *)
(***************************************************************************)
\* Lines 10-23: create the video element and wait for its metadata.
Start ==
    /\ pc = "idle"
    /\ pc' = "awaitMetadata"
    /\ UNCHANGED <<video, cropTop, cropBottom, videoPos, videoScene,
                   videoError, duration, time, masterCanvas, lastFrameData,
                   currentY, faults, progressLog, offsets, moves,
                   footerWrites, growFailed, probe,
                   detect, app>>

\* The media element fires "error" instead of the awaited event.  No error
\* handler is registered (lines 21-23, 53-56, 81-83), so nothing runs.
OnError ==
    /\ pc \in Awaiting
    /\ ~videoError
    /\ videoError' = TRUE
    /\ UNCHANGED <<pc, video, cropTop, cropBottom, videoPos, videoScene,
                   duration, time, masterCanvas, lastFrameData, currentY,
                   faults, progressLog, offsets, moves, footerWrites,
                   growFailed, probe,
                   detect, app>>

\* Lines 25-56: read the metadata, create the two canvases (throwing when a
\* context is refused), seek to 0.
OnLoadedMetadata ==
    /\ pc = "awaitMetadata"
    /\ ~videoError
    /\ \E ctxOk \in BOOLEAN, masterOk \in BOOLEAN :
        /\ (~ctxOk \/ ~masterOk) => ctxOk /\ faults < MaxFaults
        /\ duration' = DoubleOfTenths(video.tenths)
        /\ faults' = IF ctxOk /\ masterOk THEN faults ELSE faults + 1
        /\ masterCanvas' = NewCanvas(W, H)
        /\ pc' = IF ctxOk /\ masterOk THEN "awaitSeek0" ELSE "failed"
    /\ UNCHANGED <<video, cropTop, cropBottom, videoPos, videoScene,
                   videoError, time, lastFrameData, currentY, progressLog,
                   offsets, moves, footerWrites, growFailed, probe,
                   detect, app>>

\* The head of the for loop of line 76 for the clock value t: report the
\* progress and seek (lines 77-83), or leave the loop.
LoopHead(t) ==
    /\ time' = t
    /\ IF DoubleLess(t, duration)
       THEN /\ progressLog' = Append(progressLog, Percent(t, duration))
            /\ pc' = "awaitSeek"
       ELSE /\ progressLog' = progressLog
            /\ pc' = "finalizing"

\* Lines 58-83: draw the first frame without its footer, retain it, enter
\* the loop.
FirstFrame(frame) ==
    /\ masterCanvas' = DrawFirstFrame(masterCanvas, frame, H, cropBottom)
    /\ lastFrameData' = getFrameData(frame, W, H)
    /\ currentY' = H - cropBottom
    /\ LoopHead(Step)

OnSeekedFirst ==
    /\ pc = "awaitSeek0"
    /\ ~videoError
    /\ FirstFrame(ShownFrame(video, videoPos, videoScene, cropTop, cropBottom))
    /\ UNCHANGED <<video, cropTop, cropBottom, videoPos, videoScene,
                   videoError, duration, faults, offsets, moves,
                   footerWrites, growFailed, probe,
                   detect, app>>

\* Retain that keeps the frame it already had.
RetainStale(frameData, last) == last

\* What the loop records as the previous frame (line 172).
Retain(frameData, last) == frameData

Refused(tempOk, ctxOk) == (IF tempOk THEN 0 ELSE 1) + (IF ctxOk THEN 0 ELSE 1)

\* Lines 100-172: append the strip when the offset is positive; the two
\* context requests of the resize may be refused.
Composite(frame, frameData, offset) ==
    /\ offsets' = Append(offsets, offset)
    /\ lastFrameData' = Retain(frameData, lastFrameData)
    /\ currentY' = IF offset > 0 THEN currentY + offset ELSE currentY
    /\ IF offset > 0
       THEN \E tempOk \in BOOLEAN, ctxOk \in BOOLEAN :
               /\ faults + Refused(tempOk, ctxOk) <= MaxFaults
               /\ faults' = faults + Refused(tempOk, ctxOk)
               /\ growFailed' = (growFailed \/ Refused(tempOk, ctxOk) > 0)
               /\ masterCanvas' = AppendStrip(masterCanvas, frame, H, offset,
                                              cropBottom, tempOk, ctxOk)
       ELSE UNCHANGED <<faults, growFailed, masterCanvas>>

\* Lines 85-98: read the frame and estimate the offset.
Estimate(frame, frameData) ==
    Composite(frame, frameData,
              findOffset(lastFrameData, frameData, W, H, cropTop, cropBottom))

Sample(frame) == Estimate(frame, getFrameData(frame, W, H))

\* Lines 85-172 and the loop head again: sample the frame the seek landed
\* on, estimate the offset, append the strip, retain the frame.
OnSeeked ==
    /\ pc = "awaitSeek"
    /\ ~videoError
    /\ \E m \in Moves(video) :
           /\ videoPos' = videoPos + m.d
           /\ videoScene' = m.scene
           /\ moves' = Append(moves, m)
           /\ Sample(ShownFrame(video, videoPos + m.d, m.scene, cropTop,
                                cropBottom))
    /\ LoopHead(DoubleAdd(time, Step))
    /\ UNCHANGED <<video, cropTop, cropBottom, videoError, duration,
                   footerWrites, probe,
                   detect, app>>

\* The value of the last onProgress call (line 205).
FinalProgress == 100

\* Lines 175-206: append the footer of the frame the video shows, report
\* 100 and return the image.
Footer(frame) ==
    \E tempOk \in BOOLEAN, ctxOk \in BOOLEAN :
        /\ Refused(tempOk, ctxOk) > 0 =>
               cropBottom > 0 /\ faults + Refused(tempOk, ctxOk) <= MaxFaults
        /\ faults' = faults + Refused(tempOk, ctxOk)
        /\ growFailed' = (growFailed \/ Refused(tempOk, ctxOk) > 0)
        /\ masterCanvas' = AppendFooter(masterCanvas, frame, H, cropBottom,
                                        tempOk, ctxOk)
        /\ footerWrites' = IF cropBottom > 0 /\ ctxOk
                           THEN footerWrites + 1 ELSE footerWrites

Finalize ==
    /\ pc = "finalizing"
    /\ Footer(ShownFrame(video, videoPos, videoScene, cropTop, cropBottom))
    /\ progressLog' = Append(progressLog, FinalProgress)
    /\ pc' = "done"
    /\ UNCHANGED <<video, cropTop, cropBottom, videoPos, videoScene,
                   videoError, duration, time, lastFrameData, currentY,
                   offsets, moves, probe,
                   detect, app>>

Next ==
    \/ Start
    \/ OnError
    \/ OnLoadedMetadata
    \/ OnSeekedFirst
    \/ OnSeeked
    \/ Finalize

Spec == Init /\ [][Next]_vars

SpecUniform == InitUniform /\ [][Next]_vars

(***************************************************************************)
(* findOffset on its own, on a pair of frames related by a translation.    *)
(***************************************************************************)
ProbePrev(p) == getFrameData(VideoFrame(p.tex, 0, p.cut, p.top, p.bottom), W, H)

ProbeCurr(p) ==
    getFrameData(VideoFrame(p.tex, p.d, FALSE, p.top, p.bottom), W, H)

InitOffset ==
    /\ Quiet([tex |-> "rich", tenths |-> 1, kind |-> "free"], 0, 0)
    /\ probe \in Probes
    /\ Apart

EstimateProbe ==
    /\ probe.result = -1
    /\ probe' = [probe EXCEPT !.result =
                     findOffset(ProbePrev(probe), ProbeCurr(probe), W, H,
                                probe.top, probe.bottom)]
    /\ UNCHANGED <<pc, video, cropTop, cropBottom, videoPos, videoScene,
                   videoError, duration, time, masterCanvas, lastFrameData,
                   currentY, faults, progressLog, offsets, moves,
                   footerWrites, growFailed, detect, app>>

NextOffset == EstimateProbe

SpecOffset == InitOffset /\ [][NextOffset]_vars

(***************************************************************************)
(* detectStaticRegions, one action per stretch of code between two awaits. *)
(***************************************************************************)
SampleCount == 5
NoiseThreshold == 15

\* The frame the i-th seek of lines 326-330 lands on (i = 0 .. 4).
DetectFrame(v, i) ==
    [y \in 0 .. v.h - 1 |->
        [x \in 0 .. W - 1 |->
            IF y < v.top \/ y >= v.h - v.bottom
            THEN Grey(90 + v.noise * (i % 2))
            ELSE IF v.changeAt > 0 /\ i >= v.changeAt THEN Grey(120)
            ELSE Grey(100)]]

DetectCols(w) == <<w \div 4, (w * 2) \div 4, (w * 3) \div 4>>

\* Lines 352-359: |dR| + |dG| + |dB| of two frames at one pixel.
PixelDiff(f1, f2, idx) ==
    Abs(f1.data[idx] - f2.data[idx])
    + Abs(f1.data[idx + 1] - f2.data[idx + 1])
    + Abs(f1.data[idx + 2] - f2.data[idx + 2])

\* Lines 350-360: diff of row y between two frames, summed over the columns.
PairDiff(f1, f2, w, y) ==
    LET cols == DetectCols(w)
    IN PixelDiff(f1, f2, (y * w + cols[1]) * 4)
       + PixelDiff(f1, f2, (y * w + cols[2]) * 4)
       + PixelDiff(f1, f2, (y * w + cols[3]) * 4)

\* Lines 347-365: maxRowDiff of row y over the consecutive pairs from i on.
\* The code divides each sum by cols.length = 3 before comparing; the sums
\* are integers, so the quotients compare as the sums do, and the statistic
\* is held here in thirds.
RECURSIVE MaxRowDiff(_, _, _, _, _)
MaxRowDiff(frames, w, y, i, maxRowDiff) ==
    IF i > SampleCount - 1 THEN maxRowDiff
    ELSE MaxRowDiff(frames, w, y, i + 1,
                    IF PairDiff(frames[i], frames[i + 1], w, y) > maxRowDiff
                    THEN PairDiff(frames[i], frames[i + 1], w, y)
                    ELSE maxRowDiff)

RowDiffs(frames, w, h) ==
    [y \in 0 .. h - 1 |-> MaxRowDiff(frames, w, y, 1, 0)]

\* Above with the comparison not strict.
AboveNoiseOrEqual(thirds) == thirds >= NoiseThreshold * 3

\* rowDiffs[y] > noiseThreshold (lines 374, 382), on the statistic in
\* thirds: sum / 3 > 15 exactly when sum > 45.
AboveNoise(thirds) == thirds > NoiseThreshold * 3

\* Lines 372-378: the scan from the top, while y < height / 2.
RECURSIVE TopScan(_, _, _, _)
TopScan(rowDiffs, h, y, top) ==
    IF ~(2 * y < h) THEN top
    ELSE IF AboveNoise(rowDiffs[y]) THEN top
    ELSE TopScan(rowDiffs, h, y + 1, y + 1)

\* Lines 380-386: the scan from the bottom, while y > height / 2.
RECURSIVE BottomScan(_, _, _, _)
BottomScan(rowDiffs, h, y, bottom) ==
    IF ~(2 * y > h) THEN bottom
    ELSE IF AboveNoise(rowDiffs[y]) THEN bottom
    ELSE BottomScan(rowDiffs, h, y - 1, h - y)

\* Lines 335-388.
Regions(rowDiffs, h) ==
    [top |-> TopScan(rowDiffs, h, 0, 0),
     bottom |-> BottomScan(rowDiffs, h, h - 1, 0)]

Analyse(frames, w, h) == Regions(RowDiffs(frames, w, h), h)

\* detectStaticRegions touches nothing of a stitchVideo run or of the App.
DetectOnly ==
    UNCHANGED <<pc, video, cropTop, cropBottom, videoPos, videoScene,
                videoError, duration, time, masterCanvas, lastFrameData,
                currentY, faults, progressLog, offsets, moves, footerWrites,
                growFailed, probe, app>>

\* Lines 298-308: create the video element and wait for its metadata.
DetectStart ==
    /\ detect.pc = "idle"
    /\ detect' = [detect EXCEPT !.pc = "awaitMetadata"]
    /\ DetectOnly

\* Lines 310-330: read the metadata, create the canvas; without a context
\* return {top: 0, bottom: 0}, else seek to the first sample.
OnDetectMetadata ==
    /\ detect.pc = "awaitMetadata"
    /\ \E ctxOk \in BOOLEAN :
           detect' = IF ctxOk
                     THEN [detect EXCEPT !.pc = "awaitSeek"]
                     ELSE [detect EXCEPT !.pc = "done", !.ctxOk = FALSE,
                                         !.result = [top |-> 0, bottom |-> 0]]
    /\ DetectOnly

\* Lines 331-333 and the loop of line 324 again, or lines 335-388 after the
\* last sample.
Sampled(frames) ==
    detect' = IF Len(frames) < SampleCount
              THEN [detect EXCEPT !.frames = frames]
              ELSE [detect EXCEPT !.frames = frames, !.pc = "done",
                                  !.result = Analyse(frames, W,
                                                     detect.video.h)]

OnDetectSeeked ==
    /\ detect.pc = "awaitSeek"
    /\ Sampled(Append(detect.frames,
                      getFrameData(DetectFrame(detect.video,
                                               Len(detect.frames)),
                                   W, detect.video.h)))
    /\ DetectOnly

NextDetect ==
    \/ DetectStart
    \/ OnDetectMetadata
    \/ OnDetectSeeked

InitDetect ==
    /\ Quiet([tex |-> "rich", tenths |-> 1, kind |-> "free"], 0, 0)
    /\ probe = NoProbe
    /\ app = NoApp
    /\ \E v \in DetectVideos : detect = DetectCall(v, "idle")

SpecDetect == InitDetect /\ [][NextDetect]_vars

(***************************************************************************)
(* The App component: its event handlers and the settling of the promises  *)
(* of detectStaticRegions and stitchVideo.                                 *)
(***************************************************************************)
MaxCalls == 3       \* calls of the two functions in flight at one time

\* What the sliders and a finished detection may set the crop cells to.
AppCrops == {0, 10}

\* A handler of the App touches nothing of the runs modelled above.
AppOnly ==
    UNCHANGED <<pc, video, cropTop, cropBottom, videoPos, videoScene,
                videoError, duration, time, masterCanvas, lastFrameData,
                currentY, faults, progressLog, offsets, moves, footerWrites,
                growFailed, probe, detect>>

InFlight == app.detecting + app.stitching

\* handleDrop, and onChange of the file input, which does the same: both are
\* rendered only while no file is selected.  Select the file and start the
\* detection.
SelectFile ==
    /\ app.mounted
    /\ ~app.videoFile
    /\ InFlight < MaxCalls
    /\ app' = [app EXCEPT !.videoFile = TRUE, !.resultImage = FALSE,
                          !.isProcessing = TRUE, !.detecting = @ + 1]
    /\ AppOnly

\* The then-callback of detectStaticRegions(url).
DetectSettled ==
    /\ app.detecting > 0
    /\ \E top \in AppCrops, bottom \in AppCrops :
           app' = [app EXCEPT !.cropTop = top, !.cropBottom = bottom,
                              !.isProcessing = FALSE, !.detecting = @ - 1]
    /\ AppOnly

\* onClick of "Change Video", rendered while a file is selected.
ChangeVideo ==
    /\ app.videoFile
    /\ app' = [app EXCEPT !.videoFile = FALSE, !.resultImage = FALSE]
    /\ AppOnly

\* onChange of the two sliders, rendered while a file is selected.
MoveSlider ==
    /\ app.videoFile
    /\ \E top \in AppCrops, bottom \in AppCrops :
           /\ top = app.cropTop \/ bottom = app.cropBottom
           /\ app' = [app EXCEPT !.cropTop = top, !.cropBottom = bottom]
    /\ AppOnly

\* startStitching up to its await: the button is rendered while a file is
\* selected and disabled while isProcessing.
StartStitching ==
    /\ app.videoFile
    /\ ~app.isProcessing
    /\ InFlight < MaxCalls
    /\ app' = [app EXCEPT !.isProcessing = TRUE, !.stitching = @ + 1]
    /\ AppOnly

\* startStitching after its await: the promise of stitchVideo resolved
\* (setResultImage) or rejected (the catch block), then the finally block.
StitchSettled ==
    /\ app.stitching > 0
    /\ \E resolved \in BOOLEAN :
           app' = [app EXCEPT !.resultImage = (resolved \/ @),
                              !.isProcessing = FALSE, !.stitching = @ - 1]
    /\ AppOnly

NextApp ==
    \/ SelectFile
    \/ DetectSettled
    \/ ChangeVideo
    \/ MoveSlider
    \/ StartStitching
    \/ StitchSettled

InitApp ==
    /\ Quiet([tex |-> "rich", tenths |-> 1, kind |-> "free"], 0, 0)
    /\ probe = NoProbe
    /\ detect = NoDetect
    /\ app = AppState(TRUE)

SpecApp == InitApp /\ [][NextApp]_vars

(***************************************************************************)
(* Helpers of the properties.                                              *)
(***************************************************************************)
RECURSIVE SumSeq(_)
SumSeq(s) == IF s = <<>> THEN 0 ELSE Head(s) + SumSeq(Tail(s))

\* The first frame has been drawn: the loop or what follows it is running.
Composing == pc \in {"awaitSeek", "finalizing", "done"}

\* The height of the canvas against the offsets found so far.
C1_Height ==
    /\ pc \in {"awaitSeek", "finalizing"} =>
           masterCanvas.height = H - cropBottom + SumSeq(offsets)
    /\ pc = "done" => masterCanvas.height = H + SumSeq(offsets)
    /\ Composing => /\ masterCanvas.width = W
                    /\ DOMAIN masterCanvas.rows = 0 .. masterCanvas.height - 1

\* No step after the first frame lowers the height or changes the width.
C1_HeightGrows ==
    [][Composing => /\ masterCanvas'.height >= masterCanvas.height
                    /\ masterCanvas'.width = masterCanvas.width]_vars

\* C1: once the first frame is drawn the canvas height is
\* H - cropBottom + (the sum of the offsets found so far) until the footer
\* step and H + (that sum) after it; the height never decreases and the
\* width stays W.
C1_HeightIsSumOfOffsets == []C1_Height /\ C1_HeightGrows

C1_Witness ==
    /\ pc = "done"
    /\ cropBottom > 0
    /\ Len(offsets) = 2
    /\ offsets[1] > 0
    /\ offsets[2] > 0

\* C2: an append step and the footer step leave every row below the old
\* height with the content it had; new content goes to the new rows only.
C2_AppendOnly ==
    [][(pc \in {"awaitSeek", "finalizing"}) =>
          \A y \in 0 .. masterCanvas.height - 1 :
              /\ y < masterCanvas'.height
              /\ masterCanvas'.rows[y] = masterCanvas.rows[y]]_vars

\* The content is strong enough for a translation of d under the mask: every
\* scanned candidate at a smaller offset o differs from the signature by
\* more than 5 * (d - o).
RECURSIVE Outweighs(_, _, _, _, _, _)
Outweighs(prev, curr, signatureY, searchHeight, d, o) ==
    IF o >= d THEN TRUE
    ELSE /\ Dissimilarity(prev, curr, W, signatureY, signatureY - o,
                          searchHeight) > 5 * (d - o)
         /\ Outweighs(prev, curr, signatureY, searchHeight, d, o + 2)

\* The translation of the probe is one the search can find: on the 2px
\* grid, inside the scanned range, on a signature of at least 10 rows.
OnGrid(p) ==
    LET searchHeight == ((H - p.top - p.bottom) * 2) \div 10
        signatureY == H - p.bottom - searchHeight
    IN /\ ~p.cut
       /\ searchHeight >= 10
       /\ p.d % 2 = 0
       /\ p.d <= H \div 2
       /\ p.d <= signatureY - p.top
       /\ 5 * p.d <= 8000
       /\ Outweighs(ProbePrev(p), ProbeCurr(p), signatureY, searchHeight,
                    p.d, 0)

\* C3 as stated: for every translation d in [0, floor(0.5 * H)] and every
\* mask, findOffset returns d rounded to the 2px grid.
C3_ReturnsNearestEven ==
    (probe.result # -1 /\ ~probe.cut) =>
        /\ probe.result % 2 = 0
        /\ probe.result - probe.d \in {-1, 0, 1}

\* C3 as amended: findOffset returns exactly d when d is even, lies within
\* min(floor(0.5 * H), signatureY - cropTop), the signature has at least 10
\* rows, 5 * d <= 8000 and every scanned candidate at a smaller offset o has
\* a dissimilarity above 5 * (d - o).
C3_ExactOnGrid ==
    (probe.result # -1 /\ OnGrid(probe)) => probe.result = probe.d

C3_Witness ==
    /\ probe.result = probe.d
    /\ probe.d >= 20
    /\ probe.top > 0
    /\ probe.bottom > 0
    /\ OnGrid(probe)

\* The tall image a run should produce for a video that ended scrolled by
\* total: the header band, the document rows down to the last one revealed,
\* the footer band.
GroundTruth(tex, top, bottom, total) ==
    [y \in 0 .. H + total - 1 |->
        [x \in 0 .. W - 1 |->
            IF y < top THEN HeaderPixel
            ELSE IF y < H - bottom + total THEN Doc(tex, y, x)
            ELSE FooterPixel]]

NoSceneChange == \A i \in 1 .. Len(moves) : ~moves[i].scene

\* C4: for frames that are windows over a tall image at integer scroll
\* offsets, with fixed header and footer bands, the final output is the
\* first frame's rows, then the revealed rows in order, then the footer.
C4_Reconstructs ==
    (pc = "done" /\ NoSceneChange) =>
        /\ masterCanvas.height = H + videoPos
        /\ masterCanvas.rows =
               GroundTruth(video.tex, cropTop, cropBottom, videoPos)

EstimatesExact == \A i \in 1 .. Len(offsets) : offsets[i] = moves[i].d

\* C5: a video of n steps of 0.1 s that scrolls by the same on-grid amount d
\* at every step, with no footer crop and exact estimates, ends with height
\* H + d * (n - 1).
C5_UniformHeight ==
    (pc = "done" /\ cropBottom = 0 /\ EstimatesExact /\ ~growFailed) =>
        \A m \in UniformMoves :
            masterCanvas.height = H + m.d * (video.tenths - 1)

\* The last cropBottom rows of the output are the footer rows of the frame
\* the video shows.
FooterBandInPlace ==
    \A k \in 0 .. cropBottom - 1 :
        masterCanvas.rows[masterCanvas.height - cropBottom + k] =
            ShownFrame(video, videoPos, videoScene, cropTop,
                       cropBottom)[H - cropBottom + k]

\* The footer band was drawn at most once, and where it belongs.
C6_Written ==
    /\ footerWrites <= 1
    /\ footerWrites = 1 => /\ pc = "done"
                           /\ cropBottom > 0
                           /\ FooterBandInPlace

\* The footer is drawn by the step that ends the run and by no other.
C6_Step ==
    [][/\ footerWrites' # footerWrites => pc = "finalizing" /\ pc' = "done"
       /\ footerWrites > 0 => masterCanvas' = masterCanvas
       /\ (pc = "finalizing" /\ cropBottom = 0) =>
              masterCanvas' = masterCanvas]_vars

\* C6: the footer band is drawn at most once, in the step that ends the run,
\* only when cropBottom > 0; it then fills the last cropBottom rows with rows
\* [H - cropBottom, H) of the last sampled frame; with cropBottom = 0 the
\* footer step changes nothing.
C6_FooterOnce == []C6_Written /\ C6_Step

C6_Witness ==
    /\ footerWrites = 1
    /\ Len(offsets) = 2
    /\ offsets[2] > 0

\* C7: an iteration whose offset is 0 leaves the output as it was, retains
\* the frame it sampled and goes on with the loop (or leaves it normally).
C7_ZeroOffsetKeepsOutput ==
    [][(Len(offsets') = Len(offsets) + 1 /\ offsets'[Len(offsets')] = 0) =>
          /\ masterCanvas' = masterCanvas
          /\ lastFrameData' =
                 getFrameData(ShownFrame(video, videoPos', videoScene',
                                         cropTop, cropBottom), W, H)
          /\ pc' \in {"awaitSeek", "finalizing"}]_vars

C7_Witness ==
    /\ Len(offsets) = 2
    /\ moves[1].scene
    /\ offsets[1] = 0
    /\ offsets[2] = 0
    /\ pc = "done"

\* C8: the values given to onProgress never decrease, lie in [0, 100], and
\* the last one before the result is returned is 100.
C8_Progress ==
    /\ \A i \in 1 .. Len(progressLog) :
           /\ progressLog[i] >= 0
           /\ progressLog[i] <= 100
           /\ i > 1 => progressLog[i - 1] <= progressLog[i]
    /\ pc = "done" => /\ Len(progressLog) > 0
                      /\ progressLog[Len(progressLog)] = 100

C8_Witness ==
    /\ pc = "done"
    /\ Len(progressLog) >= 4
    /\ progressLog[1] < progressLog[2]

\* The two frames of the probe have the same pixels.
PixelIdentical(prev, curr) == prev.data = curr.data

\* C11: for two pixel-identical frames findOffset returns 0, under every
\* crop mask.
C11_IdenticalFramesGiveZero ==
    (probe.result # -1 /\ PixelIdentical(ProbePrev(probe), ProbeCurr(probe)))
        => probe.result = 0

C11_Witness ==
    /\ probe.result = 0
    /\ probe.tex = "faint"
    /\ probe.top = 10
    /\ probe.bottom = 10
    /\ PixelIdentical(ProbePrev(probe), ProbeCurr(probe))

\* The offsets findOffset scans under the mask of the probe p: the even
\* distances from signatureY down to max(cropTop, signatureY - floor(0.5 H)),
\* none when the signature has fewer than 10 rows.
ScannedOffsets(p) ==
    LET searchHeight == ((H - p.top - p.bottom) * 2) \div 10
        signatureY == H - p.bottom - searchHeight
    IN {o \in 0 .. H :
            /\ searchHeight >= 10
            /\ o % 2 = 0
            /\ signatureY - o >= p.top
            /\ o <= H \div 2}

\* The scanned candidates of a frame pair as pairs <<offset, dissimilarity>>.
Candidates(prev, curr, p) ==
    LET searchHeight == ((H - p.top - p.bottom) * 2) \div 10
        signatureY == H - p.bottom - searchHeight
    IN {<<o, Dissimilarity(prev, curr, W, signatureY, signatureY - o,
                           searchHeight)>> : o \in ScannedOffsets(p)}

ProbeCandidates == Candidates(ProbePrev(probe), ProbeCurr(probe), probe)

\* dissimilarity + 5 * (signatureY - scanY) of a candidate.
Total(c) == c[2] + 5 * c[1]

\* c scores least among the candidates, and no candidate scoring the same,
\* or differing from the signature by the same, has a smaller offset.
Minimizes(c, cands) ==
    \A e \in cands :
        /\ Total(c) <= Total(e)
        /\ Total(e) = Total(c) => c[1] <= e[1]
        /\ e[2] = c[2] => c[1] <= e[1]

ChosenAmong(cands, r) == \E c \in cands : r = c[1] /\ Minimizes(c, cands)

\* The candidate the scan prefers: the least score, then the least offset.
Best(cands) == CHOOSE c \in cands : Minimizes(c, cands)

\* C13 as stated: the offset findOffset returns is that of a scanned
\* candidate minimizing dissimilarity + 5 * offset, the smaller offset winning
\* between candidates of equal dissimilarity and of equal score.
C13_ReturnsMinimizer ==
    (probe.result # -1 /\ ScannedOffsets(probe) # {}) =>
        ChosenAmong(ProbeCandidates, probe.result)

Accepted(cands) == cands # {} /\ Total(Best(cands)) <= 8000

\* C13 as amended: unless the least score exceeds 8000 (the match is then
\* rejected and 0 returned), the offset findOffset returns is that of a
\* scanned candidate minimizing dissimilarity + 5 * offset, the smaller
\* offset winning between candidates of equal dissimilarity and of equal
\* score.
C13_AcceptedIsMinimizer ==
    (probe.result # -1 /\ Accepted(ProbeCandidates)) =>
        ChosenAmong(ProbeCandidates, probe.result)

Tied(cands) ==
    \E c \in cands, e \in cands :
        /\ c[1] < e[1]
        /\ Total(c) = Total(e)
        /\ Minimizes(c, cands)

C13_Witness ==
    /\ probe.result # -1
    /\ probe.tex = "ramp"
    /\ Accepted(ProbeCandidates)
    /\ Tied(ProbeCandidates)
    /\ ChosenAmong(ProbeCandidates, probe.result)

\* What the claim says findOffset returns for the preferred candidate c.
ByRawThreshold(c) == IF c[2] > 8000 THEN 0 ELSE c[1]

\* C14 as stated: findOffset returns 0 when the dissimilarity of the best
\* candidate, without the distance penalty, exceeds 8000, and the offset of
\* the best candidate otherwise.
C14_RejectsOnRawScore ==
    (probe.result # -1 /\ ScannedOffsets(probe) # {}) =>
        probe.result = ByRawThreshold(Best(ProbeCandidates))

\* What findOffset returns for the preferred candidate c.
ByScoreThreshold(c) == IF Total(c) > 8000 THEN 0 ELSE c[1]

\* C14 as amended: findOffset returns 0 when the score of the best
\* candidate, its dissimilarity plus the distance penalty, exceeds 8000, and
\* the offset of the best candidate otherwise; a best candidate whose
\* dissimilarity is at most 8000 is rejected when the penalty lifts its
\* score above 8000.
C14_RejectsOnScore ==
    (probe.result # -1 /\ ScannedOffsets(probe) # {}) =>
        probe.result = ByScoreThreshold(Best(ProbeCandidates))

PenaltyDecides(c) == c[1] > 0 /\ c[2] <= 8000 /\ Total(c) > 8000

C14_Witness ==
    /\ probe.result = 0
    /\ ScannedOffsets(probe) # {}
    /\ PenaltyDecides(Best(ProbeCandidates))

Least(a, b) == IF a < b THEN a ELSE b

\* The largest offset the scan of the probe p can return.
ScanReach(p) ==
    LET searchHeight == ((H - p.top - p.bottom) * 2) \div 10
        signatureY == H - p.bottom - searchHeight
    IN Least(H \div 2, signatureY - p.top)

\* The rows an append of the offset r copies from the current frame lie in
\* the content region [cropTop, H - cropBottom).
StripInContent(p, r) ==
    /\ StripSourceY(H, r, p.bottom) >= p.top
    /\ StripSourceY(H, r, p.bottom) + r <= H - p.bottom

\* C16 as stated: every offset findOffset returns is even, with
\* 0 <= offset <= min(floor(0.5 H), signatureY - cropTop)
\*   < H - cropTop - cropBottom, so the strip of an append lies inside the
\* content region.
C16_OffsetWithinReach ==
    probe.result # -1 =>
        /\ probe.result % 2 = 0
        /\ 0 <= probe.result
        /\ probe.result <= ScanReach(probe)
        /\ ScanReach(probe) < H - probe.top - probe.bottom
        /\ StripInContent(probe, probe.result)

\* C16 as amended: every offset findOffset returns is even and >= 0, and
\* every offset it returns that is not 0 is at most
\* min(floor(0.5 H), signatureY - cropTop) < H - cropTop - cropBottom, so the
\* strip of an append lies inside the content region.
C16_AppendedWithinReach ==
    probe.result # -1 =>
        /\ probe.result % 2 = 0
        /\ 0 <= probe.result
        /\ probe.result > 0 =>
               /\ probe.result <= ScanReach(probe)
               /\ ScanReach(probe) < H - probe.top - probe.bottom
               /\ StripInContent(probe, probe.result)

C16_Witness ==
    /\ probe.result > 0
    /\ probe.top > 0
    /\ probe.bottom > 0
    /\ probe.result = ScanReach(probe)
    /\ StripSourceY(H, probe.result, probe.bottom) >= probe.top

\* C12: the result of detectStaticRegions has top >= 0, bottom >= 0 and
\* top + bottom < H: the two bands never overlap or cover the whole frame.
C12_BandsLeaveContent ==
    detect.pc = "done" =>
        /\ detect.result.top >= 0
        /\ detect.result.bottom >= 0
        /\ detect.result.top + detect.result.bottom < detect.video.h

\* C9: once the source has failed, the run is in Failed or still moving
\* towards it; it is never stuck waiting and never returns an image.
C9_FailureSurfaces ==
    videoError => /\ pc # "done"
                  /\ pc = "failed" \/ ENABLED Next

\* The worst-case difference statistic of row y, in thirds: the largest sum
\* over the three columns among the consecutive pairs of sampled frames.
WorstCase(frames, w, y) ==
    LET sums == {PairDiff(frames[i], frames[i + 1], w, y) :
                     i \in 1 .. SampleCount - 1}
    IN CHOOSE m \in sums : \A n \in sums : m >= n

\* The rows whose statistic exceeds the threshold of 15.
Exceeding(frames, w, h) ==
    {y \in 0 .. h - 1 : WorstCase(frames, w, y) > 15 * 3}

FirstOf(rows) == CHOOSE y \in rows : \A z \in rows : y <= z

\* The rows the scan from the top visits: those above the midline.
UpperRows(h) == {y \in 0 .. h - 1 : 2 * y < h}

\* C15 as stated: once the frames are sampled, top is the number of rows
\* that precede the first row of the frame whose statistic exceeds 15, and
\* every row scanned from the top when no row of the frame exceeds it.
C15_TopIsFirstExceedingRow ==
    (detect.pc = "done" /\ Len(detect.frames) = SampleCount) =>
        detect.result.top =
            IF Exceeding(detect.frames, W, detect.video.h) = {}
            THEN Cardinality(UpperRows(detect.video.h))
            ELSE FirstOf(Exceeding(detect.frames, W, detect.video.h))

\* The rows above the midline that come before every exceeding row.
StaticPrefix(exceeding, h) ==
    {y \in UpperRows(h) : \A z \in 0 .. y : z \notin exceeding}

\* C15 as amended: with the canvas context obtained, top is the number of
\* rows y < H / 2, counted from row 0, that precede the first row whose
\* statistic exceeds 15 (all of them when none of them exceeds it, 0 when row
\* 0 does); without a context the result is {top: 0, bottom: 0}.
C15_TopIsStaticPrefix ==
    detect.pc = "done" =>
        IF detect.ctxOk
        THEN detect.result.top =
                 Cardinality(StaticPrefix(Exceeding(detect.frames, W,
                                                    detect.video.h),
                                          detect.video.h))
        ELSE detect.result = [top |-> 0, bottom |-> 0]

C15_Witness ==
    /\ detect.pc = "done"
    /\ detect.ctxOk
    /\ detect.video.h = DetectH + 1
    /\ detect.video.top = 2
    /\ detect.video.noise = 5
    /\ detect.video.changeAt = 3
    /\ detect.result.top = 2

\* C17: isProcessing is true whenever a detection or a stitch run is in
\* flight, and at most one stitchVideo run is in flight at any time.
C17_ProcessingWhileInFlight ==
    /\ InFlight > 0 => app.isProcessing
    /\ app.stitching <= 1

\* C10: a run in which a grow step could not get its canvas context never
\* returns an image.
C10_GrowFailureSurfaces == growFailed => pc # "done"

====
